---- MODULE Spec2Model ----
(***************************************************************************)
(* A model of the in-memory block filesystem of src/FileSystem.py: the     *)
(* block device, the free-space bitmap, the inode and directory tables,    *)
(* path resolution, the journal, and the six operations of FileSystem.     *)
(*                                                                         *)
(* Paths are sequences of characters, texts are sequences of characters    *)
(* that encode to one or three bytes each, and a Python dict is a sequence   *)
(* of (name, ino) pairs in insertion order.  The device is scaled down:    *)
(* NUM_BLOCKS and BLOCK_SIZE are small here (1024 and 4096 in the source). *)
(* Inode.ctime and Inode.mtime are left out: no operation reads them.      *)
(***************************************************************************)
EXTENDS Integers, Sequences, FiniteSets, TLC

\* ------------------------------------------------------------------ bounds
BLOCK_SIZE == 2
NUM_BLOCKS == 2
MaxPathLen == 4
MaxTextLen == 2
MaxIno == 3
MaxJournal == 3

\* ------------------------------------------------------------- input sets
\* Path characters: the separator and one letter, so names are a, aa, aaa.
PathChars == {"/", "a"}

RECURSIVE SeqsUpTo(_, _)
SeqsUpTo(S, n) ==
    IF n = 0 THEN {<<>>}
    ELSE LET shorter == SeqsUpTo(S, n - 1)
         IN  shorter \cup {Append(s, c) : s \in {t \in shorter : Len(t) = n - 1}, c \in S}

\* The paths a caller passes: every absolute path up to MaxPathLen characters
\* that repeats no separator and ends in none: "/", "/a", "/aa", "/aaa",
\* "/a/a".
Paths ==
    {p \in SeqsUpTo(PathChars, MaxPathLen) :
        /\ p # <<>> /\ p[1] = "/"
        /\ \A i \in 1..(Len(p) - 1) : ~(p[i] = "/" /\ p[i + 1] = "/")
        /\ (p[Len(p)] = "/" => Len(p) = 1)}

\* Text characters: "x" is ASCII, "EUR" stands for U+20AC (three bytes in
\* UTF-8: E2 82 AC).
TextChars == {"x", "EUR"}
Texts == SeqsUpTo(TextChars, MaxTextLen)

None == 0

\* ----------------------------------------------------------------- state
VARIABLES
    disk,         \* BlockDevice.blocks: block index -> BLOCK_SIZE bytes
    map,          \* Bitmap.map: block index -> 0 | 1
    inodes,       \* FileSystem.inodes: ino -> [is_dir, blocks, size]
    directories,  \* FileSystem.directories: ino -> entries, in insertion order
    next_ino,     \* FileSystem.next_ino
    journal,      \* the records of JOURNAL_FILE, in order
    pc,           \* the caller: "idle", or "returned" from the call below
    call,         \* the call that returned: [op, path, text]
    result,       \* how it ended: "ok" or the exception raised
    ret,          \* what it returned: None, a str or a list
    run           \* the calls on one path in a row up to here (observer)

fs == <<disk, map, inodes, directories, next_ino, journal>>
vars == <<disk, map, inodes, directories, next_ino, journal, pc, call, result, ret, run>>

\* The filesystem object as one value.
Cur ==
    [disk |-> disk, map |-> map, inodes |-> inodes, directories |-> directories,
     next_ino |-> next_ino, journal |-> journal]

root == 1

\* ------------------------------------------------------- text <-> bytes
\* str.encode(): UTF-8.
EncodeChar(c) == IF c = "x" THEN <<120>> ELSE <<226, 130, 172>>

RECURSIVE Encode(_)
Encode(text) ==
    IF text = <<>> THEN <<>> ELSE EncodeChar(Head(text)) \o Encode(Tail(text))

\* bytes.decode(): UTF-8, strict: the text, or no text (ok = FALSE) where
\* Python raises UnicodeDecodeError.  Of the bytes a block can hold, 0 and
\* 120 are ASCII, 226 leads a three-byte character and 130 and 172 continue
\* one; a three-byte character other than U+20AC decodes to "OTHER".
IsContinuation(b) == b >= 128 /\ b < 192

DecodeError == [ok |-> FALSE, text |-> <<>>]

RECURSIVE Decode(_)
Decode(bytes) ==
    IF bytes = <<>> THEN [ok |-> TRUE, text |-> <<>>]
    ELSE LET b == Head(bytes) IN
         IF b < 128
         THEN LET rest == Decode(Tail(bytes)) IN
              IF ~rest.ok THEN DecodeError
              ELSE [ok |-> TRUE, text |-> <<IF b = 0 THEN "NUL" ELSE "x">> \o rest.text]
         ELSE IF /\ b = 226 /\ Len(bytes) >= 3
                 /\ IsContinuation(bytes[2]) /\ IsContinuation(bytes[3])
         THEN LET rest == Decode(SubSeq(bytes, 4, Len(bytes))) IN
              IF ~rest.ok THEN DecodeError
              ELSE [ok |-> TRUE,
                    text |-> <<IF bytes[2] = 130 /\ bytes[3] = 172 THEN "EUR" ELSE "OTHER">>
                                \o rest.text]
         ELSE DecodeError

\* -------------------------------------------------------------- BlockDevice
ZeroBlock == [i \in 1..BLOCK_SIZE |-> 0]

read_block(d, bno) == d[bno]

write_block(d, bno, data) ==
    [d EXCEPT ![bno] = [i \in 1..BLOCK_SIZE |->
                            IF i <= Len(data) THEN data[i] ELSE 0]]

\* ------------------------------------------------------------------ Bitmap
\* The scan of Bitmap.allocate from index i on, with `res` found so far.
RECURSIVE AllocScan(_, _, _, _)
AllocScan(m, i, res, n) ==
    IF i = NUM_BLOCKS THEN [ok |-> FALSE, map |-> m, blocks |-> res]
    ELSE IF m[i] = 0
         THEN LET m2 == [m EXCEPT ![i] = 1]
                  r2 == Append(res, i)
              IN  IF Len(r2) = n THEN [ok |-> TRUE, map |-> m2, blocks |-> r2]
                  ELSE AllocScan(m2, i + 1, r2, n)
         ELSE AllocScan(m, i + 1, res, n)

\* Mutant of allocate: a failed request leaves the bitmap as it found it.
allocate_restoring(m, n) ==
    LET a == AllocScan(m, 0, <<>>, n) IN
    IF a.ok THEN a ELSE [ok |-> FALSE, map |-> m, blocks |-> <<>>]

allocate(m, n) == AllocScan(m, 0, <<>>, n)

free(m, blocks) ==
    [b \in DOMAIN m |-> IF \E i \in 1..Len(blocks) : blocks[i] = b THEN 0 ELSE m[b]]

\* --------------------------------------------------------------- Directory
HasEntry(entries, name) == \E i \in 1..Len(entries) : entries[i].name = name

Lookup(entries, name) ==
    entries[CHOOSE i \in 1..Len(entries) : entries[i].name = name].ino

\* Mutant of SetEntry: a new key goes first.
SetEntryFirst(entries, name, ino) ==
    <<[name |-> name, ino |-> ino]>> \o SelectSeq(entries, LAMBDA e : e.name # name)

\* entries[name] = ino: a new key goes last, an existing key keeps its place.
SetEntry(entries, name, ino) ==
    IF HasEntry(entries, name)
    THEN [i \in 1..Len(entries) |->
            IF entries[i].name = name THEN [name |-> name, ino |-> ino] ELSE entries[i]]
    ELSE Append(entries, [name |-> name, ino |-> ino])

\* del entries[name]
DelEntry(entries, name) == SelectSeq(entries, LAMBDA e : e.name # name)

\* list(entries.keys())
Keys(entries) == [i \in 1..Len(entries) |-> entries[i].name]

\* --------------------------------------------------------- path resolution
\* path.strip() == "": only whitespace, or nothing at all.
IsBlank(path) == \A i \in 1..Len(path) : path[i] = " "

\* path.strip("/")
RECURSIVE StripSlash(_)
StripSlash(path) ==
    IF path = <<>> THEN <<>>
    ELSE IF Head(path) = "/" THEN StripSlash(Tail(path))
    ELSE IF path[Len(path)] = "/" THEN StripSlash(SubSeq(path, 1, Len(path) - 1))
    ELSE path

\* s.split("/")
RECURSIVE Split(_)
Split(s) ==
    IF \A i \in 1..Len(s) : s[i] # "/" THEN <<s>>
    ELSE LET i == CHOOSE k \in 1..Len(s) :
                      s[k] = "/" /\ \A j \in 1..(k - 1) : s[j] # "/"
         IN  <<SubSeq(s, 1, i - 1)>> \o Split(SubSeq(s, i + 1, Len(s)))

\* [p for p in path.strip("/").split("/") if p]
Parts(path) == SelectSeq(Split(StripSlash(path)), LAMBDA p : p # <<>>)

\* "/".join(parts)
RECURSIVE Join(_)
Join(parts) ==
    IF parts = <<>> THEN <<>>
    ELSE IF Len(parts) = 1 THEN parts[1]
    ELSE parts[1] \o <<"/">> \o Join(Tail(parts))

\* The loop of _get_inode over the parts left, from inode cur.
RECURSIVE Walk(_, _, _)
Walk(dirs, cur, parts) ==
    IF parts = <<>> THEN cur
    ELSE IF cur \notin DOMAIN dirs THEN None
    ELSE IF ~HasEntry(dirs[cur], Head(parts)) THEN None
    ELSE Walk(dirs, Lookup(dirs[cur], Head(parts)), Tail(parts))

get_inode(dirs, path) ==
    IF path = <<"/">> \/ IsBlank(path) THEN root
    ELSE Walk(dirs, root, Parts(path))

get_parent(dirs, path) ==
    LET parts == Parts(path) IN
    IF Len(parts) = 0 THEN [parent |-> None, name |-> None]
    ELSE LET parent_path == IF Len(parts) > 1
                            THEN <<"/">> \o Join(SubSeq(parts, 1, Len(parts) - 1))
                            ELSE <<"/">>
         IN  [parent |-> get_inode(dirs, parent_path), name |-> parts[Len(parts)]]

\* ------------------------------------------------------------------ inodes
Inode(is_dir) == [is_dir |-> is_dir, blocks |-> <<>>, size |-> 0]

\* Mutant of new_inode: the counter stays where it was.
new_inode_keeping_counter(ins, dirs, nxt, is_dir) ==
    [inodes      |-> [i \in DOMAIN ins \cup {nxt} |->
                         IF i = nxt THEN Inode(is_dir) ELSE ins[i]],
     directories |-> IF is_dir
                     THEN [i \in DOMAIN dirs \cup {nxt} |->
                             IF i = nxt THEN <<>> ELSE dirs[i]]
                     ELSE dirs,
     next_ino    |-> nxt]

\* _new_inode: the tables and the counter after it; the id it returns is
\* the old counter.
new_inode(ins, dirs, nxt, is_dir) ==
    [inodes      |-> [i \in DOMAIN ins \cup {nxt} |->
                         IF i = nxt THEN Inode(is_dir) ELSE ins[i]],
     directories |-> IF is_dir
                     THEN [i \in DOMAIN dirs \cup {nxt} |->
                             IF i = nxt THEN <<>> ELSE dirs[i]]
                     ELSE dirs,
     next_ino    |-> nxt + 1]

\* ------------------------------------------------------------- operations
\* What a call returns: None, a str (read) or a list of names (ls).
RetNone == [type |-> "None", str |-> <<>>, list |-> <<>>]
RetStr(text) == [type |-> "str", str |-> text, list |-> <<>>]
RetList(names) == [type |-> "list", str |-> <<>>, list |-> names]

\* Each operation maps the filesystem s and its arguments to the filesystem
\* it leaves, with how the call ended (result) and what it returned (ret).
Ends(s, res, rv) ==
    [disk |-> s.disk, map |-> s.map, inodes |-> s.inodes,
     directories |-> s.directories, next_ino |-> s.next_ino,
     journal |-> s.journal, result |-> res, ret |-> rv]

\* Mutant of Link: the entry names the parent itself.
Link_to_parent(dirs, parent, name, ino) == [dirs EXCEPT ![parent] = SetEntry(@, name, parent)]

\* directories[parent].entries[name] = ino
Link(dirs, parent, name, ino) == [dirs EXCEPT ![parent] = SetEntry(@, name, ino)]

\* The body mkdir and create share; they differ in is_dir and the message.
Make(s, path, is_dir) ==
    LET pn == get_parent(s.directories, path) IN
    IF pn.parent = None THEN Ends(s, "FileNotFoundError", RetNone)
    ELSE IF pn.parent \notin DOMAIN s.directories THEN Ends(s, "KeyError", RetNone)
    ELSE IF HasEntry(s.directories[pn.parent], pn.name)
    THEN Ends(s, "FileExistsError", RetNone)
    ELSE LET n == new_inode(s.inodes, s.directories, s.next_ino, is_dir) IN
         Ends([s EXCEPT !.inodes = n.inodes,
                        !.directories = Link(n.directories, pn.parent, pn.name, s.next_ino),
                        !.next_ino = n.next_ino],
              "ok", RetNone)

mkdir_(s, path) == Make(s, path, TRUE)

create_(s, path) == Make(s, path, FALSE)

\* for i, b in enumerate(blocks): write_block(b, data[i*BLOCK_SIZE:(i+1)*BLOCK_SIZE])
RECURSIVE WriteChunks(_, _, _, _)
WriteChunks(d, blocks, data, i) ==
    IF i > Len(blocks) THEN d
    ELSE LET lo == (i - 1) * BLOCK_SIZE + 1
             hi == IF i * BLOCK_SIZE < Len(data) THEN i * BLOCK_SIZE ELSE Len(data)
         IN  WriteChunks(write_block(d, blocks[i], SubSeq(data, lo, hi)), blocks, data, i + 1)

\* Mutant of Needed: the block count rounds down.
Needed_rounding_down(data) == Len(data) \div BLOCK_SIZE

\* needed = (len(data) + BLOCK_SIZE - 1) // BLOCK_SIZE
Needed(data) == (Len(data) + BLOCK_SIZE - 1) \div BLOCK_SIZE

\* Mutant of Record: every record is written as an intent.
Record_as_intent(type, path) == [type |-> "intent", action |-> "write", path |-> path]

Record(type, path) == [type |-> type, action |-> "write", path |-> path]

write_(s, path, text) ==
    LET data  == Encode(text)
        s1    == [s EXCEPT !.journal = Append(@, Record("intent", path))]
        found == get_inode(s.directories, path)
        pn    == get_parent(s.directories, path)
        n     == new_inode(s.inodes, s.directories, s.next_ino, FALSE)
    IN
    IF found = None /\ pn.parent = None THEN Ends(s1, "FileNotFoundError", RetNone)
    ELSE IF found = None /\ pn.parent \notin DOMAIN s.directories
    THEN Ends([s1 EXCEPT !.inodes = n.inodes, !.next_ino = n.next_ino], "KeyError", RetNone)
    ELSE
    LET ino   == IF found = None THEN s.next_ino ELSE found
        s2    == IF found = None
                 THEN [s1 EXCEPT !.inodes = n.inodes,
                                 !.directories = Link(n.directories, pn.parent, pn.name, ino),
                                 !.next_ino = n.next_ino]
                 ELSE s1
        inode == s2.inodes[ino]
        m1    == IF inode.blocks # <<>> THEN free(s2.map, inode.blocks) ELSE s2.map
        a     == allocate(m1, Needed(data))
    IN
    IF ~a.ok THEN Ends([s2 EXCEPT !.map = a.map], "RuntimeError", RetNone)
    ELSE Ends([s2 EXCEPT !.map = a.map,
                         !.inodes[ino].blocks = a.blocks,
                         !.inodes[ino].size = Len(data),
                         !.disk = WriteChunks(@, a.blocks, data, 1),
                         !.journal = Append(@, Record("commit", path))],
              "ok", RetNone)

\* content += read_block(b) for b in inode.blocks
RECURSIVE Content(_, _)
Content(d, blocks) ==
    IF blocks = <<>> THEN <<>> ELSE read_block(d, Head(blocks)) \o Content(d, Tail(blocks))

\* content[:size]
Prefix(bytes, n) == SubSeq(bytes, 1, IF n < Len(bytes) THEN n ELSE Len(bytes))

read_(s, path) ==
    LET ino == get_inode(s.directories, path) IN
    IF ino = None THEN Ends(s, "FileNotFoundError", RetNone)
    ELSE LET inode == s.inodes[ino]
             text  == Decode(Prefix(Content(s.disk, inode.blocks), inode.size))
         IN  IF ~text.ok THEN Ends(s, "UnicodeDecodeError", RetNone)
             ELSE Ends(s, "ok", RetStr(text.text))

ls_(s, path) ==
    LET ino == get_inode(s.directories, path) IN
    IF ino = None THEN Ends(s, "FileNotFoundError", RetNone)
    ELSE IF ~s.inodes[ino].is_dir THEN Ends(s, "NotADirectoryError", RetNone)
    ELSE Ends(s, "ok", RetList(Keys(s.directories[ino])))

\* Mutant of delete: it tests the parent, as mkdir and create do, and not
\* the inode, so that a missing target reaches self.inodes[None].
delete_testing_parent(s, path) ==
    LET pn  == get_parent(s.directories, path)
        ino == get_inode(s.directories, path)
    IN
    IF pn.parent = None THEN Ends(s, "FileNotFoundError", RetNone)
    ELSE IF ino = None THEN Ends(s, "KeyError", RetNone)
    ELSE Ends([s EXCEPT !.map = free(@, s.inodes[ino].blocks),
                        !.directories[pn.parent] = DelEntry(@, pn.name)],
              "ok", RetNone)

delete_(s, path) ==
    LET pn  == get_parent(s.directories, path)
        ino == get_inode(s.directories, path)
    IN
    IF ino = None THEN Ends(s, "FileNotFoundError", RetNone)
    ELSE LET inode == s.inodes[ino]
             s1    == IF inode.blocks # <<>>
                      THEN [s EXCEPT !.map = free(@, inode.blocks)]
                      ELSE s
         IN  IF \/ pn.parent \notin DOMAIN s.directories
                \/ ~HasEntry(s.directories[pn.parent], pn.name)
             THEN Ends(s1, "KeyError", RetNone)
             ELSE Ends([s1 EXCEPT !.directories[pn.parent] = DelEntry(@, pn.name)],
                       "ok", RetNone)

\* ---------------------------------------------------------------- observer
\* The number of blocks marked allocated.
Used(m) == Cardinality({b \in DOMAIN m : m[b] = 1})

\* The blocks free once the blocks the path's inode lists are released.
FreeAfterRelease(path) ==
    LET t == get_inode(directories, path) IN
    NUM_BLOCKS - Used(free(map, IF t = None THEN <<>> ELSE inodes[t].blocks))

NoRun == [path |-> <<>>, fresh |-> FALSE, used |-> 0, wrote |-> FALSE, fits |-> FALSE]

\* run names the path of the calls made in a row on one path: an optional
\* create and then writes, or writes alone.  fresh says the path did not
\* resolve before the first of them, used counts the blocks allocated then,
\* wrote says that the last of them was a write, and fits that each write
\* among them needed no more blocks than were free for it.
RunAfter(op, path, text) ==
    LET fit == op = "write" => Needed(Encode(text)) <= FreeAfterRelease(path) IN
    IF op \in {"create", "write"} /\ get_inode(directories, path) = None
    THEN [path |-> path, fresh |-> TRUE, used |-> Used(map), wrote |-> op = "write",
          fits |-> fit]
    ELSE IF op = "write" /\ run # NoRun /\ run.path = path
    THEN [run EXCEPT !.wrote = TRUE, !.fits = @ /\ fit]
    ELSE IF op = "write"
    THEN [path |-> path, fresh |-> FALSE, used |-> 0, wrote |-> TRUE, fits |-> fit]
    ELSE NoRun

\* ---------------------------------------------------------------- actions
NoCall == [op |-> "none", path |-> <<>>, text |-> <<>>]

Init ==
    /\ disk = [b \in 0..(NUM_BLOCKS - 1) |-> ZeroBlock]
    /\ map = [b \in 0..(NUM_BLOCKS - 1) |-> 0]
    /\ inodes = (root :> Inode(TRUE))
    /\ directories = (root :> <<>>)
    /\ next_ino = 2
    /\ journal = <<>>
    /\ pc = "idle"
    /\ call = NoCall
    /\ result = "none"
    /\ ret = RetNone
    /\ run = NoRun

\* The call op(path, text) ends as e: the filesystem it leaves, and the call
\* and its outcome as the caller sees them.
Returns(op, path, text, e) ==
    /\ disk' = e.disk
    /\ map' = e.map
    /\ inodes' = e.inodes
    /\ directories' = e.directories
    /\ next_ino' = e.next_ino
    /\ journal' = e.journal
    /\ pc' = "returned"
    /\ call' = [op |-> op, path |-> path, text |-> text]
    /\ result' = e.result
    /\ ret' = e.ret
    /\ run' = RunAfter(op, path, text)

\* The inode counter and the journal grow without end: a call that would
\* take the counter past MaxIno, or append to a journal of MaxJournal
\* records, is left out.
Fits(e) ==
    /\ e.next_ino <= MaxIno + 1
    /\ (e.journal # journal => Len(journal) < MaxJournal)

mkdir ==
    /\ pc = "idle"
    /\ \E path \in Paths :
          \E e \in {mkdir_(Cur, path)} : Fits(e) /\ Returns("mkdir", path, <<>>, e)

create ==
    /\ pc = "idle"
    /\ \E path \in Paths :
          \E e \in {create_(Cur, path)} : Fits(e) /\ Returns("create", path, <<>>, e)

write ==
    /\ pc = "idle"
    /\ \E path \in Paths, text \in Texts :
          \E e \in {write_(Cur, path, text)} : Fits(e) /\ Returns("write", path, text, e)

read ==
    /\ pc = "idle"
    /\ \E path \in Paths :
          \E e \in {read_(Cur, path)} : Returns("read", path, <<>>, e)

ls ==
    /\ pc = "idle"
    /\ \E path \in Paths :
          \E e \in {ls_(Cur, path)} : Returns("ls", path, <<>>, e)

delete ==
    /\ pc = "idle"
    /\ \E path \in Paths :
          \E e \in {delete_(Cur, path)} : Returns("delete", path, <<>>, e)

\* The caller takes the outcome and is idle again, ready for the next call.
Return ==
    /\ pc = "returned"
    /\ pc' = "idle"
    /\ call' = NoCall
    /\ result' = "none"
    /\ ret' = RetNone
    /\ UNCHANGED <<fs, run>>

Next == mkdir \/ create \/ write \/ read \/ ls \/ delete \/ Return

Spec == Init /\ [][Next]_vars

\* ------------------------------------------------------------------ claims
\* The error kinds of the operations, by the exception that signals them.
NotFound == "FileNotFoundError"
AlreadyExists == "FileExistsError"
NotADirectory == "NotADirectoryError"
OutOfSpace == "RuntimeError"

\* A step is a call: the caller was idle and the call has returned.
IsCall(ops) == pc = "idle" /\ pc' = "returned" /\ call'.op \in ops

FreeCount(m) == NUM_BLOCKS - Used(m)

Blocks(ins, ino) == {ins[ino].blocks[i] : i \in 1..Len(ins[ino].blocks)}

\* The parent of the path resolves to a directory.
ParentIsDir(path) ==
    LET pn == get_parent(directories, path) IN
    /\ pn.parent # None
    /\ pn.parent \in DOMAIN directories
    /\ inodes[pn.parent].is_dir

\* C1: round trip.  A write of a text that needs no more blocks than are
\* free, to a path that does not resolve but whose parent resolves to a
\* directory, succeeds, and a read of the path right after it returns the
\* text.
RoundTrip ==
    [][(/\ IsCall({"write"})
        /\ get_inode(directories, call'.path) = None
        /\ ParentIsDir(call'.path)
        /\ Needed(Encode(call'.text)) <= FreeCount(map))
       => /\ result' = "ok"
          /\ read_(Cur', call'.path).result = "ok"
          /\ read_(Cur', call'.path).ret = RetStr(call'.text)]_vars

\* C2: every call completes or fails with one of the four error kinds.
OnlyFourKinds ==
    pc = "returned" => result \in {"ok", NotFound, AlreadyExists, NotADirectory, OutOfSpace}

\* C3: exhaustion.  A write that has a target (the path resolves, or its
\* parent resolves to a directory) and needs more blocks than are free once
\* the target's old blocks are released fails with OutOfSpace, and leaves no
\* block of the target's list marked free.
Exhaustion ==
    [][(/\ IsCall({"write"})
        /\ \/ get_inode(directories, call'.path) # None
           \/ ParentIsDir(call'.path)
        /\ Needed(Encode(call'.text)) > FreeAfterRelease(call'.path))
       => /\ result' = OutOfSpace
          /\ LET t == get_inode(directories', call'.path) IN
             /\ t # None
             /\ \A b \in Blocks(inodes', t) : map'[b] = 1]_vars

\* A write of a text that is not empty ran out of space, and its target
\* still lists blocks.
ExhaustionWitness ==
    /\ pc = "returned" /\ call.op = "write" /\ result = OutOfSpace
    /\ call.text # <<>>
    /\ get_inode(directories, call.path) # None
    /\ inodes[get_inode(directories, call.path)].blocks # <<>>

\* C4: space reclamation.  When a path that did not resolve is established
\* by create and/or writes in a row and then deleted, as many blocks are
\* allocated after the delete as before the first of those calls.  Stated
\* for the writes that had the blocks they needed free, where the claim
\* leaves no room for a failure.
SpaceReclamation ==
    [][(/\ IsCall({"delete"})
        /\ run.fresh /\ run.fits /\ run.path = call'.path
        /\ get_inode(directories, call'.path) # None)
       => Used(map') = run.used]_vars

\* C5: idempotent overwrite.  After a write to a file path, a second write
\* to it leaves its inode with exactly ceil(len(T2)/BLOCK_SIZE) blocks, and
\* every block the inode listed before is in its list or marked free.
\* Stated for a second write that has the blocks it needs free once the old
\* ones are released, where the claim leaves no room for a failure.
IdempotentOverwrite ==
    [][(/\ IsCall({"write"})
        /\ run.wrote /\ run.path = call'.path
        /\ Needed(Encode(call'.text)) <= FreeAfterRelease(call'.path)
        /\ get_inode(directories, call'.path) # None
        /\ ~inodes[get_inode(directories, call'.path)].is_dir)
       => LET t == get_inode(directories, call'.path) IN
          /\ Len(inodes'[t].blocks) = Needed(Encode(call'.text))
          /\ \A b \in Blocks(inodes, t) : b \in Blocks(inodes', t) \/ map'[b] = 0]_vars

\* C6: error on missing target.  read, ls and delete of a path that does
\* not resolve fail with NotFound and change nothing of the filesystem.
MissingTarget ==
    [][(/\ IsCall({"read", "ls", "delete"})
        /\ get_inode(directories, call'.path) = None)
       => result' = NotFound /\ UNCHANGED fs]_vars

\* delete of /a/a failed with NotFound where /a is a regular file.
MissingTargetWitness ==
    /\ pc = "returned" /\ call.op = "delete" /\ result = NotFound
    /\ call.path = <<"/", "a", "/", "a">>
    /\ get_inode(directories, <<"/", "a">>) # None
    /\ ~inodes[get_inode(directories, <<"/", "a">>)].is_dir

\* C7: mkdir, create and delete of the bare root path fail through the
\* null-parent check and leave the bitmap and the tables unchanged.
RootRejected ==
    [][(/\ IsCall({"mkdir", "create", "delete"})
        /\ Parts(call'.path) = <<>>)
       => /\ result' = NotFound
          /\ map' = map /\ inodes' = inodes /\ directories' = directories]_vars

\* s without its element at index i.
Without(s, i) == SubSeq(s, 1, i - 1) \o SubSeq(s, i + 1, Len(s))

NoDuplicates(s) == \A i, j \in 1..Len(s) : s[i] = s[j] => i = j

\* C8: directory listing order.  The names of a directory stay in the order
\* in which their links were created: a call that links a name puts it last,
\* a delete takes one name out and keeps the order of the rest, and nothing
\* else changes the names; mkdir and create that succeed put their leaf name
\* last in the parent; ls returns these names, each once, in this order.
ListingOrder ==
    [][/\ \A d \in DOMAIN directories :
            LET old == Keys(directories[d])
                new == Keys(directories'[d])
            IN  \/ new = old
                \/ /\ call'.op \in {"mkdir", "create", "write"}
                   /\ Len(new) = Len(old) + 1
                   /\ SubSeq(new, 1, Len(old)) = old
                   /\ \A i \in 1..Len(old) : old[i] # new[Len(new)]
                \/ /\ call'.op = "delete"
                   /\ \E i \in 1..Len(old) : new = Without(old, i)
       /\ (IsCall({"mkdir", "create"}) /\ result' = "ok")
            => LET pn == get_parent(directories, call'.path) IN
               Keys(directories'[pn.parent]) = Append(Keys(directories[pn.parent]), pn.name)
       /\ (IsCall({"ls"}) /\ result' = "ok")
            => /\ ret' = RetList(Keys(directories[get_inode(directories, call'.path)]))
               /\ NoDuplicates(ret'.list)]_vars

\* ls of the root returned aa before a: aa was linked first.
ListingOrderWitness ==
    /\ pc = "returned" /\ call.op = "ls" /\ result = "ok"
    /\ call.path = <<"/">>
    /\ ret = RetList(<< <<"a", "a">>, <<"a">> >>)

\* C9: mkdir and create.  With no parent they fail with NotFound, with the
\* leaf name present in the parent they fail with AlreadyExists, both
\* without a change; otherwise they add one inode of the right kind, size 0
\* and no blocks, link it last under the leaf name, and change nothing else.
MakeContract ==
    [][IsCall({"mkdir", "create"})
       => LET pn  == get_parent(directories, call'.path)
              dir == call'.op = "mkdir"
              ino == next_ino
          IN  IF pn.parent = None
              THEN result' = NotFound /\ UNCHANGED fs
              ELSE IF /\ pn.parent \in DOMAIN directories
                      /\ HasEntry(directories[pn.parent], pn.name)
              THEN result' = AlreadyExists /\ UNCHANGED fs
              ELSE /\ result' = "ok"
                   /\ next_ino' = ino + 1
                   /\ DOMAIN inodes' = DOMAIN inodes \cup {ino}
                   /\ inodes'[ino] = [is_dir |-> dir, blocks |-> <<>>, size |-> 0]
                   /\ \A i \in DOMAIN inodes : inodes'[i] = inodes[i]
                   /\ DOMAIN directories' =
                         DOMAIN directories \cup (IF dir THEN {ino} ELSE {})
                   /\ pn.parent \in DOMAIN directories
                   /\ directories'[pn.parent] =
                         Append(directories[pn.parent], [name |-> pn.name, ino |-> ino])
                   /\ \A d \in DOMAIN directories \ {pn.parent} :
                         directories'[d] = directories[d]
                   /\ UNCHANGED <<disk, map, journal>>]_vars

\* C10: block accounting.  No block index is in the block lists of two
\* inodes, and a block's bitmap flag is set exactly when the index is in
\* some inode's block list.
BlockAccounting ==
    /\ \A i, j \in DOMAIN inodes :
          i # j => Blocks(inodes, i) \cap Blocks(inodes, j) = {}
    /\ \A b \in DOMAIN map :
          map[b] = 1 <=> \E i \in DOMAIN inodes : b \in Blocks(inodes, i)

\* The bitmap as Bitmap.allocate finds it in write(path, ...): the old blocks
\* of the path's inode, if it resolves, have been released.
MapAtAllocate(path) ==
    LET t == get_inode(directories, path) IN
    IF t = None THEN map ELSE free(map, inodes[t].blocks)

\* C11: allocation failure is atomic.  When Bitmap.allocate(n) fails in a
\* write for want of n free blocks (n > 0), the bitmap after the failure is
\* the bitmap the request found.
AllocationAtomic ==
    [][(/\ IsCall({"write"})
        /\ call'.text # <<>>
        /\ result' = OutOfSpace)
       => map' = MapAtAllocate(call'.path)]_vars

\* C12: directory inodes never own data.  Every inode with is_dir set, the
\* root included, has size 0 and no blocks.
DirectoriesOwnNothing ==
    \A i \in DOMAIN inodes :
        inodes[i].is_dir => inodes[i].size = 0 /\ inodes[i].blocks = <<>>

\* C13: size and block count agree.  In every state, those left by a failed
\* write included, every inode has len(blocks) = ceil(size / BLOCK_SIZE):
\* its blocks hold its size, and one block fewer would not.
SizeMatchesBlocks ==
    \A i \in DOMAIN inodes :
        /\ inodes[i].size <= Len(inodes[i].blocks) * BLOCK_SIZE
        /\ inodes[i].size > (Len(inodes[i].blocks) - 1) * BLOCK_SIZE

\* A write ran out of space on an inode whose last block is part full.
SizeMatchesBlocksWitness ==
    /\ pc = "returned" /\ call.op = "write" /\ result = OutOfSpace
    /\ \E i \in DOMAIN inodes :
          /\ get_inode(directories, call.path) = i
          /\ inodes[i].size = 3 /\ Len(inodes[i].blocks) = 2

\* The n lowest free indices of bitmap m, in ascending order.
FirstFree(m, n) ==
    LET F == {b \in DOMAIN m : m[b] = 0} IN
    CHOOSE r \in [1..n -> F] :
        /\ \A i, j \in 1..n : i < j => r[i] < r[j]
        /\ \A b \in F : (\A i \in 1..n : r[i] # b) => \A i \in 1..n : r[i] < b

\* C14: first fit.  For every bitmap and every n from 0 to the number of
\* free blocks, Bitmap.allocate(n), as write calls it, succeeds, returns the
\* n lowest free indices in ascending order, marks exactly those and changes
\* no other flag.
FirstFit ==
    [][(/\ IsCall({"write"})
        /\ \/ get_inode(directories, call'.path) # None
           \/ ParentIsDir(call'.path)
        /\ Needed(Encode(call'.text)) <= FreeCount(MapAtAllocate(call'.path)))
       => LET m == MapAtAllocate(call'.path)
              r == FirstFree(m, Needed(Encode(call'.text)))
              t == get_inode(directories', call'.path)
          IN  /\ result' = "ok"
              /\ inodes'[t].blocks = r
              /\ map' = [b \in DOMAIN m |->
                            IF \E i \in 1..Len(r) : r[i] = b THEN 1 ELSE m[b]]]_vars

\* Every commit record comes right after an intent record of the same path.
CommitsFollowIntents(j) ==
    \A i \in 1..Len(j) :
        j[i].type = "commit"
            => i > 1 /\ j[i - 1] = [type |-> "intent", action |-> "write", path |-> j[i].path]

\* C15: journal protocol.  Every write(P, T) appends an intent record for P,
\* and after it a commit record for P exactly when the write succeeds; no
\* other operation appends, no record is changed or removed, and every
\* commit comes right after an intent of the same path.
JournalProtocol ==
    [][/\ IsCall({"write"})
            => LET intent == [type |-> "intent", action |-> "write", path |-> call'.path]
                   commit == [type |-> "commit", action |-> "write", path |-> call'.path]
               IN  IF result' = "ok"
                   THEN journal' = journal \o <<intent, commit>>
                   ELSE journal' = Append(journal, intent)
       /\ ~IsCall({"write"}) => journal' = journal
       /\ CommitsFollowIntents(journal')]_vars

\* A write failed after an earlier write had committed: the journal ends in
\* an intent with no commit.
JournalProtocolWitness ==
    /\ pc = "returned" /\ call.op = "write" /\ result # "ok"
    /\ Len(journal) = 3
    /\ journal[2].type = "commit" /\ journal[3].type = "intent"

\* C16: inode ids are unique and never reused.  The counter never goes
\* down, every id in the table is below it, an inode that is added takes an
\* id from the old counter on, and no call removes an inode record or
\* changes its is_dir.
InodeIdsFresh ==
    [][/\ next_ino' >= next_ino
       /\ \A i \in DOMAIN inodes : i < next_ino
       /\ \A i \in DOMAIN inodes' : i < next_ino'
       /\ \A i \in DOMAIN inodes :
             i \in DOMAIN inodes' /\ inodes'[i].is_dir = inodes[i].is_dir
       /\ \A i \in DOMAIN inodes' \ DOMAIN inodes : i >= next_ino]_vars

\* A write under a regular file failed after it had taken a new id: every
\* id up to MaxIno is in the table.
InodeIdsFreshWitness ==
    /\ pc = "returned" /\ call.op = "write" /\ result = "KeyError"
    /\ next_ino = MaxIno + 1
    /\ DOMAIN inodes = 1..MaxIno

\* The inodes the entries of directory d name.
Children(dirs, d) == {dirs[d][i].ino : i \in 1..Len(dirs[d])}

\* The inodes in S and those that entries lead to from them.
RECURSIVE ReachFrom(_, _)
ReachFrom(dirs, S) ==
    LET T == S \cup UNION {Children(dirs, d) : d \in S \cap DOMAIN dirs} IN
    IF T = S THEN S ELSE ReachFrom(dirs, T)

\* C17: the links form a tree under the root.  The root inode is there at
\* its fixed id with a directory record and no entry names it, no inode is
\* named by two entries, and no directory is reached from itself.
LinkTree ==
    /\ root \in DOMAIN inodes /\ inodes[root].is_dir /\ root \in DOMAIN directories
    /\ \A d \in DOMAIN directories : root \notin Children(directories, d)
    /\ \A d1, d2 \in DOMAIN directories :
          \A i1 \in 1..Len(directories[d1]), i2 \in 1..Len(directories[d2]) :
              directories[d1][i1].ino = directories[d2][i2].ino => d1 = d2 /\ i1 = i2
    /\ \A d \in DOMAIN directories :
          d \notin ReachFrom(directories, Children(directories, d))

\* A directory inside a directory inside the root.
LinkTreeWitness ==
    /\ Children(directories, root) = {2}
    /\ 2 \in DOMAIN directories
    /\ Children(directories, 2) = {3}

\* The inodes a path from the root leads to.
Live(dirs) == ReachFrom(dirs, {root})

\* C18: no aliasing between live files.  No block index is in the block
\* lists of two inodes that paths from the root lead to.
NoAliasing ==
    \A i, j \in Live(directories) :
        i # j => Blocks(inodes, i) \cap Blocks(inodes, j) = {}

\* Every block marked allocated is in the block list of a live inode.
NoLeak(m, ins, dirs) ==
    \A b \in DOMAIN m :
        m[b] = 1 => \E i \in Live(dirs) : b \in Blocks(ins, i)

\* C19: no leaked blocks after successful operations.  A call that succeeds
\* in a state without leaked blocks leaves no leaked block: every block
\* marked allocated is in the block list of a live inode; delete of a
\* directory frees the blocks of the files beneath it.
NoLeakAfterSuccess ==
    [][(/\ pc = "idle" /\ pc' = "returned"
        /\ result' = "ok"
        /\ NoLeak(map, inodes, directories))
       => NoLeak(map', inodes', directories')]_vars

====
